---- MODULE Spec2Model ----
(***************************************************************************)
(* Model of src/src/App.tsx (HenkanKun): batch conversion of images to     *)
(* WebP in the browser and packaging of the results in a zip archive.      *)
(***************************************************************************)
EXTENDS Integers, Sequences, FiniteSets, TLC

(***************************************************************************)
(* JavaScript numbers.  width and height are IEEE-754 doubles: the code    *)
(* computes height * (MAX_SIZE / width), each operation rounded to a 53    *)
(* bit significand (to nearest, ties to even), and the canvas truncates    *)
(* the result to an integer.  A positive double is modelled exactly, as    *)
(* [s |-> <<1, l1, l2, l3, l4>>, e |-> e]: the significand is the leading  *)
(* 1 followed by four limbs of LimbBits bits, and the value is             *)
(* significand * 2^e.                                                      *)
(***************************************************************************)

\* A double has a 53 bit significand: a leading bit and 4 limbs of 13 bits.
LimbBits == 13

Limb == 2 ^ LimbBits

\* const MAX_SIZE = 1200
MAX_SIZE == 1200

\* f(x), with x evaluated once only.
Then(x, f(_)) == CHOOSE y \in { f(v) : v \in {x} } : TRUE

\* The number of bits of a positive integer below 2^31.
BitLength(n) == CHOOSE b \in 1..31 : n \div (2 ^ (b - 1)) = 1

\* The limbs l = <<l1, l2, l3, l4>> plus the carry c into the last one.
Carry(l, c) ==
    Then(l[4] + c, LAMBDA n4 :
    Then(l[3] + n4 \div Limb, LAMBDA n3 :
    Then(l[2] + n3 \div Limb, LAMBDA n2 :
         <<l[1] + n2 \div Limb, n2 % Limb, n3 % Limb, n4 % Limb>>)))

\* Round to nearest, ties to even: the significand <<1, l1, l2, l3, l4>> at
\* exponent e, followed by the bit guard and by a non-zero tail iff sticky.
RoundDouble(l, e, guard, sticky) ==
    Then(Carry(l, IF guard = 1 /\ (sticky \/ l[4] % 2 = 1) THEN 1 ELSE 0),
         LAMBDA n : IF n[1] = Limb
                    THEN [s |-> <<1, 0, 0, 0, 0>>, e |-> e + 1]
                    ELSE [s |-> <<1>> \o n, e |-> e])

\* One step of the long division by d: the next limb of the quotient and
\* the remainder, from the remainder r.
DivStep(r, d) == <<(r * Limb) \div d, (r * Limb) % d>>

\* The double nn / dd for integers with 1 <= nn / dd < 2, times 2^e.
DivLimbs(nn, dd, e) ==
    Then(DivStep(nn % dd, dd), LAMBDA q1 :
    Then(DivStep(q1[2], dd), LAMBDA q2 :
    Then(DivStep(q2[2], dd), LAMBDA q3 :
    Then(DivStep(q3[2], dd), LAMBDA q4 :
         RoundDouble(<<q1[1], q2[1], q3[1], q4[1]>>, e - 4 * LimbBits,
                     (2 * q4[2]) \div dd, (2 * q4[2]) % dd # 0)))))

\* The double n / d for positive integers n and d below 2^13, by long
\* division, one limb at a time (MAX_SIZE / width, MAX_SIZE / height): the
\* operands are first scaled to 1 <= n / d < 2.
FDiv(n, d) ==
    LET Up(j) == 2 ^ (IF j > 0 THEN j ELSE 0)
    IN  Then(CHOOSE j \in (0 - LimbBits)..LimbBits :
                 /\ n * Up(j) >= d * Up(0 - j)
                 /\ n * Up(j) < 2 * d * Up(0 - j),
             LAMBDA k : DivLimbs(n * Up(k), d * Up(0 - k), 0 - k))

\* The limbs <<p0, p1, p2, p3, p4>> of k times the significand s: p0 is not
\* reduced modulo Limb.
MulLimbs(k, s) ==
    Then(k * s[5], LAMBDA p4 :
    Then(k * s[4] + p4 \div Limb, LAMBDA p3 :
    Then(k * s[3] + p3 \div Limb, LAMBDA p2 :
    Then(k * s[2] + p2 \div Limb, LAMBDA p1 :
         <<k * s[1] + p1 \div Limb, p1 % Limb, p2 % Limb, p3 % Limb,
           p4 % Limb>>))))

\* The product p = <<p0, p1, p2, p3, p4>> at exponent e as a double: its sh
\* last bits are dropped, and it is rounded.
DropBits(p, e, sh) ==
    LET lo == 2 ^ sh
        hi == 2 ^ (LimbBits - sh)
        half == 2 ^ (IF sh > 0 THEN sh - 1 ELSE 0)
    IN  RoundDouble(<< (p[1] % lo) * hi + p[2] \div lo,
                       (p[2] % lo) * hi + p[3] \div lo,
                       (p[3] % lo) * hi + p[4] \div lo,
                       (p[4] % lo) * hi + p[5] \div lo >>,
                    e + sh,
                    IF sh = 0 THEN 0 ELSE (p[5] % lo) \div half,
                    sh > 0 /\ (p[5] % lo) % half # 0)

\* The double k * x for an integer k in 1 .. 2^13 - 1 and a double x
\* (height *= ..., width *= ...): the exact product, rounded once.
FMul(k, x) ==
    Then(MulLimbs(k, x.s), LAMBDA p :
    Then(BitLength(p[1]) - 1, LAMBDA sh : DropBits(p, x.e, sh)))

\* Assigning a double to canvas.width / canvas.height (an unsigned long)
\* drops its fraction.  The doubles of the model are below 2^27.
ToUnsignedLong(x) ==
    LET f == 0 - x.e
    IN  IF f > 4 * LimbBits THEN 0
        ELSE IF f >= 3 * LimbBits
        THEN (Limb + x.s[2]) \div (2 ^ (f - 3 * LimbBits))
        ELSE ((Limb + x.s[2]) * Limb + x.s[3]) \div (2 ^ (f - 2 * LimbBits))

\* side *= MAX_SIZE / longEdge, as the canvas takes it: the quotient is
\* rounded to a double, then the product is, then the fraction is dropped.
scaled(side, longEdge) ==
    Then(Then(FDiv(MAX_SIZE, longEdge), LAMBDA ratio : FMul(side, ratio)),
         ToUnsignedLong)

\* WidthIsLongEdge sending the square to the landscape branch
\* (width >= height).
WidthIsAtLeastHeight(width, height) == width >= height

\* The landscape test of the resize: if (width > height).
WidthIsLongEdge(width, height) == width > height

\* canvasSize with the portrait branch testing the width (if (width >
\* MAX_SIZE) copied from the landscape branch).
canvasSizePortraitTestsWidth(width, height) ==
    IF WidthIsLongEdge(width, height)
    THEN IF width > MAX_SIZE
         THEN [width  |-> MAX_SIZE,
               height |-> scaled(height, width)]
         ELSE [width |-> width, height |-> height]
    ELSE IF width > MAX_SIZE
         THEN [width  |-> scaled(width, height),
               height |-> MAX_SIZE]
         ELSE [width |-> width, height |-> height]

\* canvasSize with the landscape branch scaling by the height
\* (height *= MAX_SIZE / height).
canvasSizeScalesByHeight(width, height) ==
    IF WidthIsLongEdge(width, height)
    THEN IF width > MAX_SIZE
         THEN [width  |-> MAX_SIZE,
               height |-> scaled(height, height)]
         ELSE [width |-> width, height |-> height]
    ELSE IF height > MAX_SIZE
         THEN [width  |-> scaled(width, height),
               height |-> MAX_SIZE]
         ELSE [width |-> width, height |-> height]

\* canvasSize with width = MAX_SIZE outside the test of the landscape branch.
canvasSizeAlwaysMaxWidth(width, height) ==
    IF WidthIsLongEdge(width, height)
    THEN [width  |-> MAX_SIZE,
          height |-> IF width > MAX_SIZE
                     THEN scaled(height, width)
                     ELSE height]
    ELSE IF height > MAX_SIZE
         THEN [width  |-> scaled(width, height),
               height |-> MAX_SIZE]
         ELSE [width |-> width, height |-> height]

\* canvasSize without width = MAX_SIZE in the landscape branch.
canvasSizeKeepsWidth(width, height) ==
    IF WidthIsLongEdge(width, height)
    THEN IF width > MAX_SIZE
         THEN [width  |-> width,
               height |-> scaled(height, width)]
         ELSE [width |-> width, height |-> height]
    ELSE IF height > MAX_SIZE
         THEN [width  |-> scaled(width, height),
               height |-> MAX_SIZE]
         ELSE [width |-> width, height |-> height]

\* let width = img.width ... canvas.height = height: the size of the canvas
\* for a decoded image of size width x height.
canvasSize(width, height) ==
    IF WidthIsLongEdge(width, height)
    THEN IF width > MAX_SIZE
         THEN [width  |-> MAX_SIZE,
               height |-> scaled(height, width)]
         ELSE [width |-> width, height |-> height]
    ELSE IF height > MAX_SIZE
         THEN [width  |-> scaled(width, height),
               height |-> MAX_SIZE]
         ELSE [width |-> width, height |-> height]

(***************************************************************************)
(* Files, URLs and the items of the batch.                                 *)
(***************************************************************************)

\* Bound: the largest number of items the batch is let grow to.
MaxImages == 2

\* Bound: Math.random().toString(36).substring(7) is one of MaxId strings.
MaxId == 2

\* Bound: the largest number of files of one selection.
MaxPick == 2

\* Bound: the largest number of lossy encodings a picture goes through.
MaxLoss == 2

\* The content of a file that is not a decodable image.
Corrupt == [px |-> 0, width |-> 0, height |-> 0, loss |-> 0]

\* The files the user can select: a name (a sequence of characters) and the
\* bitmap its content decodes to: a picture px of width x height that went
\* through loss lossy encodings.  Two names differ only in the extension.
Files ==
    { [name  |-> <<"a", ".", "b", ".", "j", "p", "g">>,
       image |-> [px |-> 1, width |-> 2000, height |-> 1000, loss |-> 0]],
      [name  |-> <<"a", ".", "b", ".", "p", "n", "g">>,
       image |-> [px |-> 2, width |-> 800, height |-> 600, loss |-> 0]],
      [name  |-> <<"c", ".", "g", "i", "f">>,
       image |-> Corrupt] }

\* resultUrl?: string, when absent.
NoUrl == [scheme |-> "none"]

\* URL.createObjectURL(file)
createObjectURL(file) == [scheme |-> "blob", file |-> file]

\* A piece of the text of a data URL that is not base64 text.
Txt(c) == [c |-> c]

\* canvas.toDataURL("image/webp", 0.8): the header, a comma and the base64
\* text, written as the bitmap it decodes to; "data:," for a canvas without
\* pixels.  WebP at quality 0.8 is lossy: the text decodes to the picture of
\* the canvas after one more loss.
toDataURL(bitmap) ==
    IF bitmap.width = 0 \/ bitmap.height = 0
    THEN [scheme |-> "data", text |-> <<Txt("data:"), Txt(",")>>]
    ELSE [scheme |-> "data",
          text   |-> <<Txt("data:image/webp;base64"), Txt(","),
                       [bitmap EXCEPT !.loss = @ + 1]>>]

RECURSIVE split(_, _)
\* text.split(sep): the pieces of text between the separators.
split(text, sep) ==
    IF \A i \in 1..Len(text) : text[i] # sep THEN <<text>>
    ELSE LET i == CHOOSE j \in 1..Len(text) :
                      text[j] = sep /\ \A k \in 1..(j - 1) : text[k] # sep
         IN  <<SubSeq(text, 1, i - 1)>>
             \o split(SubSeq(text, i + 1, Len(text)), sep)

\* What the browser decodes a URL to: the bitmap, or Corrupt when the
\* content is not an image (the error event fires instead of load).
decode(url) ==
    IF url.scheme = "blob" THEN url.file.image
    ELSE LET parts == split(url.text, Txt(","))
         IN  IF Len(parts) < 2 \/ parts[2] = <<>> THEN Corrupt
             ELSE parts[2][1]

\* ctx.drawImage(img, 0, 0, width, height): the canvas of the size computed
\* for the decoded image, with the picture of the image.
drawImage(bitmap) ==
    Then(canvasSize(bitmap.width, bitmap.height), LAMBDA size :
         [px |-> bitmap.px, width |-> size.width, height |-> size.height,
          loss |-> bitmap.loss])

\* One element of newFiles in handleFileChange.
newImage(id, file) ==
    [id |-> id, file |-> file, preview |-> createObjectURL(file),
     status |-> "idle", resultUrl |-> NoUrl]

\* updatedImage giving the image an id of its own (id 0) in the place of
\* the id of img.
updatedImageNewId(img, resultUrl) ==
    [img EXCEPT !.id = 0, !.resultUrl = resultUrl, !.preview = resultUrl,
                !.status = "done"]

\* updatedImage without status: "done".
updatedImageKeepsStatus(img, resultUrl) ==
    [img EXCEPT !.resultUrl = resultUrl, !.preview = resultUrl]

\* The object the callback of images.map returns in handleStartOptimization.
updatedImage(img, resultUrl) ==
    [img EXCEPT !.resultUrl = resultUrl, !.preview = resultUrl,
                !.status = "done"]

(***************************************************************************)
(* The archive.                                                            *)
(***************************************************************************)

\* stripExtension cutting at the first "." of the name.
stripFromFirstDot(name) ==
    LET dots == { i \in 1..Len(name) : name[i] = "." }
    IN  IF dots = {} THEN name
        ELSE SubSeq(name, 1, (CHOOSE i \in dots : \A j \in dots : i <= j) - 1)

\* name.replace(/\.[^/.]+$/, ""): the leftmost place where the pattern
\* matches is a "." followed, up to the end of the name, by one or more
\* characters other than "/" and "."; the name is cut there.
stripExtension(name) ==
    LET matches == { i \in 1..Len(name) :
                       /\ name[i] = "."
                       /\ i < Len(name)
                       /\ \A j \in (i + 1)..Len(name) :
                              name[j] \notin {"/", "."} }
    IN  IF matches = {} THEN name
        ELSE SubSeq(name, 1, (CHOOSE i \in matches :
                                 \A j \in matches : i <= j) - 1)

\* const fileName = img.file.name.replace(...) + ".webp"
fileName(img) == stripExtension(img.file.name) \o <<".", "w", "e", "b", "p">>

\* const base64Data = img.resultUrl.split(",")[1]
base64Data(img) == split(img.resultUrl.text, Txt(","))[2]

\* new JSZip(): no entry.
emptyZip == [n \in {} |-> <<>>]

\* zip.file(name, data, { base64: true }): JSZip keeps one entry per name,
\* a second entry of the same name replaces the first.
zipFile(zip, name, data) ==
    [n \in DOMAIN zip \cup {name} |-> IF n = name THEN data ELSE zip[n]]

RECURSIVE forEachImageNoTest(_, _)
\* forEachImage without if (img.resultUrl): an entry for every image, empty
\* for an image without resultUrl (img.resultUrl?.split(",")[1]).
forEachImageNoTest(imgs, zip) ==
    IF imgs = <<>> THEN zip
    ELSE forEachImageNoTest(Tail(imgs),
                            zipFile(zip, fileName(Head(imgs)),
                                    IF Head(imgs).resultUrl # NoUrl
                                    THEN base64Data(Head(imgs))
                                    ELSE <<>>))

RECURSIVE forEachImage(_, _)
\* images.forEach((img) => { if (img.resultUrl) zip.file(...) }), from zip.
forEachImage(imgs, zip) ==
    IF imgs = <<>> THEN zip
    ELSE forEachImage(Tail(imgs),
                      IF Head(imgs).resultUrl # NoUrl
                      THEN zipFile(zip, fileName(Head(imgs)),
                                   base64Data(Head(imgs)))
                      ELSE zip)

(***************************************************************************)
(* The component: its state and its handlers.                              *)
(***************************************************************************)

VARIABLES
    images,        \* useState<ImageData[]>([])
    isProcessing,  \* useState(false)
    runImages,     \* the images array a running handleStartOptimization maps
    promises,      \* the promise of each element of that map
    saved          \* what saveAs was last given

vars == <<images, isProcessing, runImages, promises, saved>>

\* The promise of an image that has not loaded has no canvas.
NoCanvas == [px |-> 0, width |-> 0, height |-> 0, loss |-> 0]

\* No archive was saved yet.
NoArchive == [written |-> FALSE, files |-> emptyZip]

Init ==
    /\ images = <<>>
    /\ isProcessing = FALSE
    /\ runImages = <<>>
    /\ promises = <<>>
    /\ saved = NoArchive

\* appendNewFiles with the new images first: [...newFiles, ...prev].
prependNewFiles(prev, newFiles) == newFiles \o prev

\* setImages((prev) => [...prev, ...newFiles])
appendNewFiles(prev, newFiles) == prev \o newFiles

\* handleFileChange: the selected files, each with a fresh random id and a
\* preview URL, are appended to the batch.
handleFileChange ==
    \E n \in 1..MaxPick :
      \E files \in [1..n -> Files], ids \in [1..n -> 1..MaxId] :
        /\ Len(images) + n <= MaxImages
        /\ images' = appendNewFiles(images, [i \in 1..n |->
                                                newImage(ids[i], files[i])])
        /\ UNCHANGED <<isProcessing, runImages, promises, saved>>

\* A start button that is never disabled.
startNeverDisabled == FALSE

\* disabled={isProcessing} of the start button.
startDisabled == isProcessing

\* handleStartOptimization up to its await: the button is rendered when
\* the batch is not empty and is disabled while isProcessing.  Every image
\* of the batch gets an Image element that starts loading its preview.  (No
\* picture is taken through more than MaxLoss encodings.)
handleStartOptimization ==
    /\ Len(images) > 0
    /\ ~startDisabled
    /\ \A i \in 1..Len(images) : decode(images[i].preview).loss < MaxLoss
    /\ isProcessing' = TRUE
    /\ runImages' = images
    /\ promises' = [i \in 1..Len(images) |->
                        [state |-> "pending", canvas |-> NoCanvas,
                         resultUrl |-> NoUrl]]
    /\ UNCHANGED <<images, saved>>

\* resolve(canvas.toDataURL("image/webp", 0.8)): the promise of
\* processImage once the image is drawn to canvas.
resolve(canvas) ==
    [state |-> "fulfilled", canvas |-> canvas, resultUrl |-> toDataURL(canvas)]

\* img.onload of the i-th image of the run: the image is drawn to a canvas,
\* the promise of processImage is resolved with the data URL of the canvas
\* and the map callback returns.
imgOnload(i) ==
    /\ i \in 1..Len(promises)
    /\ promises[i].state = "pending"
    /\ decode(runImages[i].preview) # Corrupt
    /\ promises' = [promises EXCEPT
                       ![i] = Then(drawImage(decode(runImages[i].preview)),
                                   resolve)]
    /\ UNCHANGED <<images, isProcessing, runImages, saved>>

\* The preview of the i-th image of the run does not decode: the browser
\* fires the error event, for which processImage has no handler, and the
\* promise stays unsettled for ever.
imgError(i) ==
    /\ i \in 1..Len(promises)
    /\ promises[i].state = "pending"
    /\ decode(runImages[i].preview) = Corrupt
    /\ promises' = [promises EXCEPT ![i].state = "broken"]
    /\ UNCHANGED <<images, isProcessing, runImages, saved>>

\* Promise.any in the place of Promise.all: one fulfilled promise is enough.
PromiseAny(ps) == \E i \in 1..Len(ps) : ps[i].state = "fulfilled"

\* Promise.all(...) is fulfilled when each of its promises is.
PromiseAll(ps) == \A i \in 1..Len(ps) : ps[i].state = "fulfilled"

\* handleStartOptimization after its await: setImages(updatedImages),
\* setIsProcessing(false) and the alert.
optimizationDone ==
    /\ isProcessing
    /\ PromiseAll(promises)
    /\ images' = [i \in 1..Len(runImages) |->
                     updatedImage(runImages[i], promises[i].resultUrl)]
    /\ isProcessing' = FALSE
    /\ runImages' = <<>>
    /\ promises' = <<>>
    /\ UNCHANGED saved

\* The body of downloadAllAsZip: a new archive gets the entries of the
\* images of the batch, is generated and is handed to saveAs.
zipAndSave ==
    /\ saved' = [written |-> TRUE, files |-> forEachImage(images, emptyZip)]
    /\ UNCHANGED <<images, isProcessing, runImages, promises>>

\* downloadAllAsZip: its button is rendered when some image is done and no
\* run is in flight.
downloadAllAsZip ==
    /\ Len(images) > 0
    /\ \E i \in 1..Len(images) : images[i].status = "done"
    /\ ~isProcessing
    /\ zipAndSave

Next ==
    \/ handleFileChange
    \/ handleStartOptimization
    \/ \E i \in 1..Len(promises) : imgOnload(i)
    \/ \E i \in 1..Len(promises) : imgError(i)
    \/ optimizationDone
    \/ downloadAllAsZip

Spec == Init /\ [][Next]_vars

\* The load or error event of an image that is loading.
imgEvent == \E i \in 1..Len(promises) : imgOnload(i) \/ imgError(i)

\* The browser delivers the load or error event of every image that is
\* loading (an event stays due until it is delivered, and no image starts
\* loading before the run in flight is over), and runs the continuation of
\* a fulfilled Promise.all.
FairSpec ==
    /\ Spec
    /\ WF_vars(imgEvent)
    /\ WF_vars(optimizationDone)

(***************************************************************************)
(* downloadAllAsZip on its own: the function is called on the batch of any *)
(* state of the component, whether or not its button is rendered.          *)
(***************************************************************************)

ArchiveNext ==
    \/ handleFileChange
    \/ handleStartOptimization
    \/ \E i \in 1..Len(promises) : imgOnload(i)
    \/ \E i \in 1..Len(promises) : imgError(i)
    \/ optimizationDone
    \/ zipAndSave

ArchiveSpec == Init /\ [][ArchiveNext]_vars

(***************************************************************************)
(* The resize on its own: a batch of one image of any size in Dims x Dims  *)
(* is converted, again and again.                                          *)
(***************************************************************************)

\* Bound: the largest width and height of the images of ResizeSpec.
MaxDim == 2200

\* The widths and heights of the images of ResizeSpec; 2191 is the least d
\* for which d * (MAX_SIZE / d) falls short of MAX_SIZE in double precision.
Dims ==
    { d \in 1..MaxDim : \/ d = 1
                        \/ d % 29 = 0
                        \/ d % 100 = 0
                        \/ d \in {MAX_SIZE - 1, MAX_SIZE + 1, 2191} }

ResizeInit ==
    /\ \E w \in Dims, h \in Dims :
          images = << newImage(1, [name  |-> <<"a", ".", "j", "p", "g">>,
                                   image |-> [px |-> 1, width |-> w,
                                              height |-> h, loss |-> 0]]) >>
    /\ isProcessing = FALSE
    /\ runImages = <<>>
    /\ promises = <<>>
    /\ saved = NoArchive

ResizeNext ==
    \/ handleStartOptimization
    \/ \E i \in 1..Len(promises) : imgOnload(i)
    \/ \E i \in 1..Len(promises) : imgError(i)
    \/ optimizationDone

ResizeSpec == ResizeInit /\ [][ResizeNext]_vars

(***************************************************************************)
(* Properties.                                                             *)
(***************************************************************************)

\* The images of the run in flight whose promise is fulfilled.
Converted == { i \in 1..Len(promises) : promises[i].state = "fulfilled" }

\* The bitmap the i-th image of the run in flight was decoded to.
InputOf(i) == decode(runImages[i].preview)

\* The canvas the i-th image of the run in flight was drawn to.
OutputOf(i) == promises[i].canvas

\* The images of the batch with status done.
Done(imgs) == { i \in 1..Len(imgs) : imgs[i].status = "done" }

\* C1: a batch run completes (isProcessing goes back to false, with the
\* notification) only in a step before which the promise of every image of
\* the run is fulfilled and after which every such image is in the batch,
\* at its place, with status done.
C1_JointCompletion ==
    [][ (isProcessing /\ ~isProcessing') =>
          \A i \in 1..Len(runImages) :
             /\ promises[i].state = "fulfilled"
             /\ i <= Len(images')
             /\ images'[i].id = runImages[i].id
             /\ images'[i].status = "done" ]_vars

\* A run of two images or more has completed.
C1_Witness ==
    /\ ~isProcessing
    /\ Len(images) >= 2
    /\ \A i \in 1..Len(images) : images[i].status = "done"

\* C2: an image of a run whose decoding failed ends with status failed and
\* without output, and the run completes all the same.
C2_FailedItemIsMarked ==
    \A i \in 1..MaxImages :
       []( (i <= Len(promises) /\ promises[i].state = "broken")
             => <>( /\ ~isProcessing
                    /\ i <= Len(images)
                    /\ images[i].status = "failed"
                    /\ images[i].resultUrl = NoUrl ) )

\* C3: every run that was started completes, with every image of the batch
\* in a terminal status.
C3_RunTerminates ==
    isProcessing ~> ( /\ ~isProcessing
                      /\ \A i \in 1..Len(images) :
                            images[i].status \in {"done", "failed"} )

\* C4: an image of a run that was decoded and converted gets status done and
\* its output, whatever happens to the other images of the run.
C4_Independence ==
    \A i \in 1..MaxImages :
       []( (i <= Len(promises) /\ promises[i].state = "fulfilled")
             => <>( /\ i <= Len(images)
                    /\ images[i].status = "done"
                    /\ images[i].resultUrl # NoUrl ) )

\* C5: an image of the batch stays in the batch, at its place, in every step.
C5_NeverDeleted ==
    [][ \A i \in 1..Len(images) :
           /\ i <= Len(images')
           /\ images'[i].id = images[i].id
           /\ images'[i].file = images[i].file ]_vars

\* C6: an image of the batch has a resultUrl if and only if its status is
\* done.
C6_OutputIffDone ==
    \A i \in 1..Len(images) :
       (images[i].resultUrl # NoUrl) <=> (images[i].status = "done")

\* The batch holds a converted image and, after it, one that was added later.
C6_Witness ==
    \E i, j \in 1..Len(images) :
       /\ images[i].status = "done" /\ images[i].resultUrl # NoUrl
       /\ images[j].status = "idle" /\ images[j].resultUrl = NoUrl

\* The name of the entry of an image: the name of its file up to its last
\* ".", when a "." has characters after it, and ".webp".
EntryName(img) ==
    LET name == img.file.name
        dots == { i \in 1..(Len(name) - 1) : name[i] = "." }
        last == CHOOSE i \in dots : \A j \in dots : j <= i
    IN  (IF dots = {} \/ name[Len(name)] = "." THEN name
         ELSE SubSeq(name, 1, last - 1)) \o <<".", "w", "e", "b", "p">>

\* The output of a converted image: what follows "data:...;base64," in its
\* resultUrl.
EntryData(img) == SubSeq(img.resultUrl.text, 3, Len(img.resultUrl.text))

\* Every entry of the archive zip has the name of a done image of imgs.
OnlyDoneEntries(imgs, zip) ==
    \A n \in DOMAIN zip : \E i \in Done(imgs) : n = EntryName(imgs[i])

\* C7 as claimed: the archive that is saved has, for every done image, an
\* entry of its name with its output, and no other entry.
C7_EveryDoneItemHasItsEntry ==
    [][ saved' # saved =>
          /\ OnlyDoneEntries(images, saved'.files)
          /\ \A i \in Done(images) :
                /\ EntryName(images[i]) \in DOMAIN saved'.files
                /\ saved'.files[EntryName(images[i])] = EntryData(images[i])
      ]_vars

\* C7 as amended: the archive that is saved has, for every done image, an
\* entry of its name, and no other entry; the entry holds the output of the
\* last done image of that name.
C7_LastItemOfANameWins ==
    [][ saved' # saved =>
          /\ OnlyDoneEntries(images, saved'.files)
          /\ \A i \in Done(images) :
                /\ EntryName(images[i]) \in DOMAIN saved'.files
                /\ LET same == { j \in Done(images) :
                                   EntryName(images[j]) = EntryName(images[i]) }
                       last == CHOOSE j \in same : \A k \in same : k <= j
                   IN  saved'.files[EntryName(images[i])]
                         = EntryData(images[last])
      ]_vars

\* An archive was saved of a batch with two done images of one entry name
\* and different outputs.
C7_Witness ==
    /\ saved.written
    /\ saved.files = forEachImage(images, emptyZip)
    /\ \E i, j \in Done(images) :
          /\ i < j
          /\ EntryName(images[i]) = EntryName(images[j])
          /\ EntryData(images[i]) # EntryData(images[j])

\* C8: neither side of the canvas of a converted image exceeds MAX_SIZE.
C8_ResizeClamp ==
    \A i \in Converted :
       OutputOf(i).width <= MAX_SIZE /\ OutputOf(i).height <= MAX_SIZE

\* A portrait image higher than MAX_SIZE was converted.
C8_Witness ==
    \E i \in Converted :
       /\ InputOf(i).height > MAX_SIZE
       /\ InputOf(i).width < InputOf(i).height
       /\ OutputOf(i).height = MAX_SIZE

\* C9 as claimed: a landscape image wider than MAX_SIZE gets the width
\* MAX_SIZE and the height H * MAX_SIZE / W rounded to an integer (down or up).
C9_LandscapeRounded ==
    \A i \in Converted :
       LET W == InputOf(i).width
           H == InputOf(i).height
       IN  (W > H /\ W > MAX_SIZE) =>
              /\ OutputOf(i).width = MAX_SIZE
              /\ OutputOf(i).height * W <= H * MAX_SIZE + (W - 1)
              /\ OutputOf(i).height * W >= H * MAX_SIZE - (W - 1)

\* C9 as amended: a landscape image wider than MAX_SIZE gets the width
\* MAX_SIZE and the height H * MAX_SIZE / W truncated to an integer, or one
\* less when H * MAX_SIZE / W is itself an integer; the height is within 1 of
\* H * MAX_SIZE / W.
C9_LandscapeTruncated ==
    \A i \in Converted :
       LET W == InputOf(i).width
           H == InputOf(i).height
       IN  (W > H /\ W > MAX_SIZE) =>
              /\ OutputOf(i).width = MAX_SIZE
              /\ \/ OutputOf(i).height = (H * MAX_SIZE) \div W
                 \/ /\ (H * MAX_SIZE) % W = 0
                    /\ OutputOf(i).height = (H * MAX_SIZE) \div W - 1

\* The image of 2000 x 1000 was converted to 1200 x 600.
C9_Witness ==
    \E i \in Converted :
       /\ InputOf(i).width = 2000 /\ InputOf(i).height = 1000
       /\ OutputOf(i).width = 1200 /\ OutputOf(i).height = 600

\* C10: an image with both sides at most MAX_SIZE keeps its size.
C10_NoUpscaling ==
    \A i \in Converted :
       (InputOf(i).width <= MAX_SIZE /\ InputOf(i).height <= MAX_SIZE) =>
          /\ OutputOf(i).width = InputOf(i).width
          /\ OutputOf(i).height = InputOf(i).height

\* The image of 800 x 600 was converted to 800 x 600.
C10_Witness ==
    \E i \in Converted :
       /\ InputOf(i).width = 800 /\ InputOf(i).height = 600
       /\ OutputOf(i).width = 800 /\ OutputOf(i).height = 600

\* C11 as claimed: a square image larger than MAX_SIZE goes through the
\* branch of the long width, and its canvas has the width MAX_SIZE exactly.
C11_SquareScalesByWidth ==
    \A i \in Converted :
       LET W == InputOf(i).width
           H == InputOf(i).height
       IN  (W = H /\ W > MAX_SIZE) =>
              /\ WidthIsLongEdge(W, H)
              /\ OutputOf(i).width = MAX_SIZE

\* C11 as amended: a square image larger than MAX_SIZE goes through the
\* branch of the long height (width > height is false): its canvas has the
\* height MAX_SIZE exactly and the width MAX_SIZE or MAX_SIZE - 1.
C11_SquareScalesByHeight ==
    \A i \in Converted :
       LET W == InputOf(i).width
           H == InputOf(i).height
       IN  (W = H /\ W > MAX_SIZE) =>
              /\ OutputOf(i).height = MAX_SIZE
              /\ OutputOf(i).width \in {MAX_SIZE - 1, MAX_SIZE}

\* The image of 2191 x 2191 was converted to 1199 x 1200.
C11_Witness ==
    \E i \in Converted :
       /\ InputOf(i).width = 2191 /\ InputOf(i).height = 2191
       /\ OutputOf(i).width = 1199 /\ OutputOf(i).height = 1200

\* C12: while a run is in flight no other run starts: the images of the run
\* and their promises stay those of that run, and a promise that is settled
\* is not started again.
C12_OneRunAtATime ==
    [][ (isProcessing /\ isProcessing') =>
          /\ runImages' = runImages
          /\ Len(promises') = Len(promises)
          /\ \A i \in 1..Len(promises) :
                 promises[i].state # "pending" => promises'[i] = promises[i]
      ]_vars

\* A run is in flight with a converted image and one still loading, and the
\* start button is disabled.
C12_Witness ==
    /\ isProcessing
    /\ startDisabled
    /\ \E i, j \in 1..Len(promises) :
          promises[i].state = "fulfilled" /\ promises[j].state = "pending"

\* C13: an image that is done when a run starts has, when the run completes,
\* the status and the output it had before the run.
C13_DoneItemUntouched ==
    [][ (isProcessing /\ ~isProcessing') =>
          \A i \in Done(runImages) :
             /\ images'[i].status = runImages[i].status
             /\ images'[i].resultUrl = runImages[i].resultUrl ]_vars

\* C14 as claimed: a run changes the status and the resultUrl of an image
\* and nothing else: its id, its file (content and name), its preview and
\* its set of fields are the same when the run completes as when it started.
C14_OnlyStatusAndOutputChange ==
    [][ (isProcessing /\ ~isProcessing') =>
          \A i \in 1..Len(runImages) :
             /\ DOMAIN images'[i] = DOMAIN runImages[i]
             /\ images'[i].id = runImages[i].id
             /\ images'[i].file = runImages[i].file
             /\ images'[i].preview = runImages[i].preview ]_vars

\* C14 as amended: a run changes the status, the resultUrl and the preview
\* of an image, the preview to the resultUrl, and nothing else: its id, its
\* file (content and name) and its set of fields are the same when the run
\* completes as when it started.
C14_IdAndFileUnchanged ==
    [][ (isProcessing /\ ~isProcessing') =>
          \A i \in 1..Len(runImages) :
             /\ DOMAIN images'[i] = DOMAIN runImages[i]
             /\ images'[i].id = runImages[i].id
             /\ images'[i].file = runImages[i].file
             /\ images'[i].preview = images'[i].resultUrl ]_vars

\* A run has completed: the image has the id and the file it was taken in
\* with, and its preview is no longer the URL of its file.
C14_Witness ==
    \E i \in 1..Len(images) :
       /\ images[i].status = "done"
       /\ images[i].preview # createObjectURL(images[i].file)
       /\ images[i].preview = images[i].resultUrl

\* C15: downloadAllAsZip called on a batch without a done image, the empty
\* batch first of all, saves an archive without entries.
C15_NoDoneItemNoEntry ==
    [][ (saved' # saved /\ Done(images) = {}) =>
          /\ saved'.written
          /\ DOMAIN saved'.files = {} ]_vars

\* The archive of the empty batch was saved.
C15_Witness ==
    /\ images = <<>>
    /\ saved.written
    /\ DOMAIN saved.files = {}

\* C16: an image reaches a terminal status (done or failed) only from the
\* status processing, and while a run is in flight an image with a terminal
\* status keeps it.
C16_ProcessingBeforeTerminal ==
    [][ \A i \in 1..Len(images) :
           i <= Len(images') =>
              /\ (/\ images[i].status \notin {"done", "failed"}
                  /\ images'[i].status \in {"done", "failed"})
                    => images[i].status = "processing"
              /\ (/\ isProcessing
                  /\ isProcessing'
                  /\ images[i].status \in {"done", "failed"})
                    => images'[i].status = images[i].status ]_vars

\* C17: the images of the batch stay in the order they were taken in: in
\* every step an image that stays in the batch keeps its place (new images
\* come after it, a run that completes stores its images at their places),
\* and the archive is filled in that order, so that of the done images of
\* one entry name the last one is the one written.
C17_InsertionOrder ==
    [][ /\ \A i \in 1..Len(images) :
              i <= Len(images') =>
                 /\ images'[i].id = images[i].id
                 /\ images'[i].file = images[i].file
        /\ saved' # saved =>
              \A n \in DOMAIN saved'.files :
                 \E j \in Done(images) :
                    /\ EntryName(images[j]) = n
                    /\ saved'.files[n] = EntryData(images[j])
                    /\ \A k \in Done(images) :
                          EntryName(images[k]) = n => k <= j
      ]_vars

\* The batch holds an image that went through two runs and, after it, an
\* image that was taken in later and went through one.
C17_Witness ==
    /\ Len(images) = 2
    /\ ~isProcessing
    /\ images[1].status = "done" /\ images[2].status = "done"
    /\ decode(images[1].preview).loss = 2
    /\ decode(images[2].preview).loss = 1

\* C18: no two images of the batch have the same id.
C18_UniqueIds ==
    \A i, j \in 1..Len(images) : i # j => images[i].id # images[j].id

\* C19: the resize of an image that is the output of a conversion gives the
\* size of that image: a converted image that is converted again keeps its
\* width and its height.
C19_ResizeIdempotent ==
    \A i \in Converted :
       runImages[i].status = "done" =>
          /\ InputOf(i) = decode(runImages[i].resultUrl)
          /\ OutputOf(i).width = InputOf(i).width
          /\ OutputOf(i).height = InputOf(i).height

\* The image of 2000 x 1000, converted to 1200 x 600, was converted again
\* to 1200 x 600.
C19_Witness ==
    \E i \in Converted :
       /\ runImages[i].status = "done"
       /\ runImages[i].file.image.width = 2000
       /\ runImages[i].file.image.height = 1000
       /\ InputOf(i).width = 1200 /\ InputOf(i).height = 600
       /\ OutputOf(i).width = 1200 /\ OutputOf(i).height = 600

====
